---- MODULE Spec2Model ----
(***************************************************************************)
(* Git repository provisioning of packages/builders/src/utils/providers/   *)
(* git.ts: the reference parser (sanitizeRepoPathSSH), the known-hosts     *)
(* registrar (addHostToKnownHosts, addHostToKnownHostsCommand), the local  *)
(* clone executors (cloneGitRepository, cloneGitRawRepository) and the     *)
(* remote script builders (getCustomGitCloneCommand,                       *)
(* cloneRawGitRepositoryRemote).                                           *)
(*                                                                         *)
(* A url is a sequence of one-character strings, so that the regular       *)
(* expressions of the source are matched character by character.           *)
(***************************************************************************)
EXTENDS Integers, Sequences, FiniteSets, TLC

(***************************************************************************)
(* Character classes of the regular expressions (flag "i": letters match   *)
(* in both cases).                                                         *)
(***************************************************************************)
Lower == {"a","b","c","d","e","f","g","h","i","j","k","l","m",
          "n","o","p","q","r","s","t","u","v","w","x","y","z"}

Upper == {"A","B","C","D","E","F","G","H","I","J","K","L","M",
          "N","O","P","Q","R","S","T","U","V","W","X","Y","Z"}

Digit == {"0","1","2","3","4","5","6","7","8","9"}

\* \s
Space == {" ", "\t", "\n", "\r"}

\* [a-z] under flag i
Alpha == Lower \cup Upper

SetMax(S) == CHOOSE x \in S : \A y \in S : y <= x

\* s[i..j] lies in the class C (true of the empty range)
AllIn(s, i, j, C) == \A k \in i..j : s[k] \in C

\* the literal "git" under flag i at s[i..i+2]
IsGit(s, i) ==
    /\ i + 2 <= Len(s)
    /\ s[i] \in {"g", "G"}
    /\ s[i + 1] \in {"i", "I"}
    /\ s[i + 2] \in {"t", "T"}

(***************************************************************************)
(* isHttpOrHttps: /^https?:\/\// (case-sensitive, no flag).                *)
(***************************************************************************)
HasPrefix(s, pre) == Len(s) >= Len(pre) /\ SubSeq(s, 1, Len(pre)) = pre

isHttpOrHttps(url) ==
    \/ HasPrefix(url, <<"h","t","t","p",":","/","/">>)
    \/ HasPrefix(url, <<"h","t","t","p","s",":","/","/">>)

(***************************************************************************)
(* sanitizeRepoPathSSH: SSH_PATH_RE, matched stage by stage from the last  *)
(* stage to the first.  Every quantifier of the expression is greedy, and  *)
(* the engine backtracks to the next shorter alternative: a stage takes    *)
(* the longest extent for which the rest of the expression matches.        *)
(***************************************************************************)
NoMatch == [ok |-> FALSE]

NoGroup == <<"undefined">>

\* \/?\s*$ from position q
MatchSlashEnd(s, q) ==
    \/ AllIn(s, q, Len(s), Space)
    \/ q <= Len(s) /\ s[q] = "/" /\ AllIn(s, q + 1, Len(s), Space)

\* (?:.git)?\/?\s*$ from position p; the dot is unescaped: any character
\* but a line terminator
MatchTail(s, p) ==
    \/ p <= Len(s) /\ s[p] \notin {"\n", "\r"} /\ IsGit(s, p + 1)
         /\ MatchSlashEnd(s, p + 4)
    \/ MatchSlashEnd(s, p)

\* one character of <repo>: [^\s\?#:.] or \.(?!git\/?\s*$)
RepoChar(s, k) ==
    \/ s[k] \notin Space \cup {"?", "#", ":", "."}
    \/ s[k] = "." /\ ~(IsGit(s, k + 1) /\ MatchSlashEnd(s, k + 4))

\* [^\s\/\?#:]
HostChar == {"/", "?", "#", ":"} \cup Space

\* the only element of a singleton: binds a stage's table to its value
Only(S) == CHOOSE x \in S : TRUE

\* the positions a stage can start from
Positions(s) == 1..(Len(s) + 2)

\* (?:[\/:](?<repo>...+)) then the tail, from position p
MatchRepo(s, p) ==
    IF p > Len(s) \/ s[p] \notin {"/", ":"} THEN NoMatch
    ELSE LET ends == {e \in (p + 1)..Len(s) :
                        /\ \A k \in (p + 1)..e : RepoChar(s, k)
                        /\ MatchTail(s, e + 1)}
         IN  IF ends = {} THEN NoMatch
             ELSE [ok |-> TRUE, repo |-> SubSeq(s, p + 1, SetMax(ends))]

RepoTable(s) == [p \in Positions(s) |-> MatchRepo(s, p)]

\* (?:[\/:](?<owner>[^\s\/\?#:]+))? from position p, where rest[q] is the
\* match of the rest of the expression from q
MatchOwner(s, p, rest) ==
    LET ends == IF p > Len(s) \/ s[p] \notin {"/", ":"} THEN {}
                ELSE {e \in (p + 1)..Len(s) :
                        /\ \A k \in (p + 1)..e : s[k] \notin HostChar
                        /\ rest[e + 1].ok}
        from == IF ends # {} THEN SetMax(ends) + 1 ELSE p
    IN  IF ~rest[from].ok THEN NoMatch
        ELSE [ok |-> TRUE,
              owner |-> IF ends # {} THEN SubSeq(s, p + 1, from - 1) ELSE NoGroup,
              repo |-> rest[from].repo]

OwnerTable(s) ==
    Only({[p \in Positions(s) |-> MatchOwner(s, p, t)] : t \in {RepoTable(s)}})

\* (?::(?<port>[0-9]{1,5}))? from position p
MatchPort(s, p, rest) ==
    LET ends == IF p > Len(s) \/ s[p] # ":" THEN {}
                ELSE {e \in (p + 1)..Len(s) :
                        /\ e - p <= 5
                        /\ AllIn(s, p + 1, e, Digit)
                        /\ rest[e + 1].ok}
        from == IF ends # {} THEN SetMax(ends) + 1 ELSE p
    IN  IF ~rest[from].ok THEN NoMatch
        ELSE [ok |-> TRUE,
              port |-> IF ends # {} THEN SubSeq(s, p + 1, from - 1) ELSE NoGroup,
              owner |-> rest[from].owner, repo |-> rest[from].repo]

PortTable(s) ==
    Only({[p \in Positions(s) |-> MatchPort(s, p, t)] : t \in {OwnerTable(s)}})

\* (?<domain>[^\s\/\?#:]+) from position p
MatchDomain(s, p, rest) ==
    LET ends == {e \in p..Len(s) :
                    /\ \A k \in p..e : s[k] \notin HostChar
                    /\ rest[e + 1].ok}
        from == IF ends # {} THEN SetMax(ends) + 1 ELSE p
    IN  IF ends = {} THEN NoMatch
        ELSE [ok |-> TRUE, domain |-> SubSeq(s, p, from - 1),
              port |-> rest[from].port, owner |-> rest[from].owner,
              repo |-> rest[from].repo]

DomainTable(s) ==
    Only({[p \in Positions(s) |-> MatchDomain(s, p, t)] : t \in {PortTable(s)}})

\* (?:(?<user>[a-z_][a-z0-9_-]+)@)? from position p
MatchUser(s, p, rest) ==
    LET ends == {e \in (p + 1)..(Len(s) - 1) :
                    /\ s[p] \in Alpha \cup {"_"}
                    /\ AllIn(s, p + 1, e, Alpha \cup Digit \cup {"_", "-"})
                    /\ s[e + 1] = "@"
                    /\ rest[e + 2].ok}
        from == IF ends # {} THEN SetMax(ends) + 2 ELSE p
    IN  IF ~rest[from].ok THEN NoMatch
        ELSE [ok |-> TRUE,
              user |-> IF ends # {} THEN SubSeq(s, p, from - 2) ELSE NoGroup,
              domain |-> rest[from].domain, port |-> rest[from].port,
              owner |-> rest[from].owner, repo |-> rest[from].repo]

UserTable(s) ==
    Only({[p \in Positions(s) |-> MatchUser(s, p, t)] : t \in {DomainTable(s)}})

\* (?:(?<proto>[a-z]+):\/\/)? from position p
MatchProto(s, p, rest) ==
    LET ends == {e \in p..(Len(s) - 3) :
                    /\ AllIn(s, p, e, Alpha)
                    /\ SubSeq(s, e + 1, e + 3) = <<":", "/", "/">>
                    /\ rest[e + 4].ok}
    IN  rest[IF ends # {} THEN SetMax(ends) + 4 ELSE p]

ProtoTable(s) ==
    Only({[p \in Positions(s) |-> MatchProto(s, p, t)] : t \in {UserTable(s)}})

\* ^\s* from position 1
MatchStart(s, rest) ==
    LET starts == {p \in 1..(Len(s) + 1) :
                    AllIn(s, 1, p - 1, Space) /\ rest[p].ok}
    IN  IF starts = {} THEN NoMatch ELSE rest[SetMax(starts)]

\* input.match(SSH_PATH_RE)
MatchSSHPath(s) == Only({MatchStart(s, t) : t \in {ProtoTable(s)}})

\* Number(found.groups?.port ?? 22): the decimal value of a digit string
DigitValue(c) ==
    CASE c = "0" -> 0 [] c = "1" -> 1 [] c = "2" -> 2 [] c = "3" -> 3
      [] c = "4" -> 4 [] c = "5" -> 5 [] c = "6" -> 6 [] c = "7" -> 7
      [] c = "8" -> 8 [] c = "9" -> 9

RECURSIVE Number(_)
Number(ds) ==
    IF ds = <<>> THEN 0
    ELSE 10 * Number(SubSeq(ds, 1, Len(ds) - 1)) + DigitValue(ds[Len(ds)])

DefaultPort == 22

\* a faulty variant of the parser: a string the expression does not match is
\* not refused but taken whole as the host name
sanitizeRepoPathSSHLenient(input) ==
    LET found == MatchSSHPath(input)
    IN  [ok     |-> TRUE,
         user   |-> IF ~found.ok \/ found.user = NoGroup THEN <<"g", "i", "t">>
                    ELSE found.user,
         domain |-> IF found.ok THEN found.domain ELSE input,
         port   |-> IF ~found.ok \/ found.port = NoGroup THEN DefaultPort
                    ELSE Number(found.port),
         owner  |-> IF ~found.ok \/ found.owner = NoGroup THEN <<>>
                    ELSE found.owner,
         repo   |-> IF found.ok THEN found.repo ELSE <<>>]

\* the object sanitizeRepoPathSSH returns, or [ok |-> FALSE] where it throws
\* Error("Malformatted SSH path: ...")
sanitizeRepoPathSSH(input) ==
    LET found == MatchSSHPath(input)
    IN  IF ~found.ok THEN NoMatch
        ELSE [ok     |-> TRUE,
              user   |-> IF found.user = NoGroup THEN <<"g", "i", "t">>
                         ELSE found.user,
              domain |-> found.domain,
              port   |-> IF found.port = NoGroup THEN DefaultPort
                         ELSE Number(found.port),
              owner  |-> IF found.owner = NoGroup THEN <<>> ELSE found.owner,
              repo   |-> found.repo]

\* `${this.port}`: the decimal digits of a number
DigitChar(d) == <<"0", "1", "2", "3", "4", "5", "6", "7", "8", "9">>[d + 1]

RECURSIVE PortText(_)
PortText(n) ==
    IF n < 10 THEN <<DigitChar(n)>>
    ELSE PortText(n \div 10) \o <<DigitChar(n % 10)>>

\* a faulty variant of the getter: the owner's slash is written even when
\* the owner is empty
repoPathAlwaysSlash(loc) ==
    <<"s", "s", "h", ":", "/", "/">> \o loc.user \o <<"@">> \o loc.domain
    \o <<":">> \o PortText(loc.port) \o <<"/">> \o loc.owner \o <<"/">>
    \o loc.repo \o <<".", "g", "i", "t">>

\* get repoPath(): `ssh://${user}@${domain}:${port}/${owner}${owner && "/"}${repo}.git`
repoPath(loc) ==
    <<"s", "s", "h", ":", "/", "/">> \o loc.user \o <<"@">> \o loc.domain
    \o <<":">> \o PortText(loc.port) \o <<"/">> \o loc.owner
    \o (IF loc.owner = <<>> THEN <<>> ELSE <<"/">>)
    \o loc.repo \o <<".", "g", "i", "t">>

(***************************************************************************)
(* The reference handed to every entry point.  A url or branch that is     *)
(* null, undefined or "" is falsy: the empty sequence and the empty string *)
(* stand for all three.                                                    *)
(***************************************************************************)
NoUrl == <<>>

NoBranch == ""

NoKey == ""

NoServer == ""

HttpUrl == <<"h","t","t","p",":","/","/","h","/","r">>

HttpsUrl == <<"h","t","t","p","s",":","/","/","h","/","o","/","r",".","g","i","t">>

ScpUrl == <<"g","i","t","@","h",":","o","/","r",".","g","i","t">>

SshUrl == <<"s","s","h",":","/","/","d","e","@","h",":","2","2","2","/","o","/","r">>

BlankUrl == <<" ", " ">>

BadUrl == <<"n","o"," ","u","r","l","?">>

Urls == {NoUrl, HttpUrl, HttpsUrl, ScpUrl, SshUrl, BlankUrl, BadUrl}

Branches == {NoBranch, "main"}

Keys == {NoKey, "key1"}

Servers == {NoServer, "srv"}

References ==
    [url : Urls, branch : Branches, key : Keys, serverId : Servers,
     isCompose : BOOLEAN]

(***************************************************************************)
(* Command words.  A word is a literal of the source or an interpolated    *)
(* value: the branch, the url, a path, a port number or a host name.       *)
(***************************************************************************)
Lit(str) == [k |-> "lit", s |-> str, u |-> <<>>, n |-> 0]

BranchWord(b) ==
    [k |-> "branch", s |-> IF b = NoBranch THEN "null" ELSE b, u |-> <<>>, n |-> 0]

UrlWord(url) == [k |-> "url", s |-> "", u |-> url, n |-> 0]

HostWord(domain) == [k |-> "host", s |-> "", u |-> domain, n |-> 0]

PortWord(port) == [k |-> "port", s |-> "", u |-> <<>>, n |-> port]

\* join(basePath, appName, "code"); paths(true) names the remote tree
outputPath(remote, compose) ==
    [k |-> "path",
     s |-> IF compose THEN "COMPOSE_PATH/appName/code"
           ELSE "APPLICATIONS_PATH/appName/code",
     u |-> <<>>,
     n |-> IF remote THEN 1 ELSE 0]

\* GIT_SSH_COMMAND: `ssh -i ${keyPath} -o UserKnownHostsFile=${knownHostsPath}`
GitSshCommand(key) == [name |-> "GIT_SSH_COMMAND", keyPath |-> key]

\* ...process.env
ProcessEnv == {[name |-> "process.env", keyPath |-> ""]}

\* the argument list of spawnAsync("git", [...]) in cloneGitRepository
CloneArgs(r) ==
    << Lit("clone"), Lit("--branch"), BranchWord(r.branch), Lit("--depth"),
       Lit("1"), Lit("--recurse-submodules"), UrlWord(r.url),
       outputPath(FALSE, r.isCompose), Lit("--progress") >>

\* the argument list of spawnAsync("git", [...]) in cloneGitRawRepository
RawCloneArgs(r) ==
    << Lit("clone"), Lit("--branch"), BranchWord(r.branch), Lit("--depth"),
       Lit("1"), UrlWord(r.url), outputPath(FALSE, TRUE), Lit("--progress") >>

\* the env option of both spawnAsync calls
CloneEnv(r) ==
    ProcessEnv \cup (IF r.key # NoKey THEN {GitSshCommand(r.key)} ELSE {})


(***************************************************************************)
(* Shell script lines.  The builders push one element per command and join *)
(* them with "\n": each element is a command of its own.                   *)
(***************************************************************************)
\* env: the assignments that prefix the command on its own line
Line(op, args, out) ==
    [op |-> op, args |-> args, out |-> out, env |-> {}, onfail |-> <<>>]

\* addHostToKnownHostsCommand: the command text, or [ok |-> FALSE] where
\* sanitizeRepoPathSSH throws
addHostToKnownHostsCommand(url) ==
    LET loc == sanitizeRepoPathSSH(url)
    IN  IF ~loc.ok THEN NoMatch
        ELSE [ok   |-> TRUE,
              line |-> Line("ssh-keyscan",
                            <<Lit("-p"), PortWord(loc.port), HostWord(loc.domain)>>,
                            "known_hosts")]

\* GIT_SSH_COMMAND="ssh -i ${keyPath} -o UserKnownHostsFile=${knownHostsPath}"
SshCommandLine(key) == Line("GIT_SSH_COMMAND=", <<Lit(key)>>, "")

\* git clone --branch ${customGitBranch} --depth 1 --progress ${customGitUrl} ${outputPath}
RemoteCloneArgs(r, compose) ==
    << Lit("clone"), Lit("--branch"), BranchWord(r.branch), Lit("--depth"),
       Lit("1"), Lit("--progress"), UrlWord(r.url), outputPath(TRUE, compose) >>

\* a faulty variant of the guard: the failure is logged and the script goes on
GuardedCloneNoExit(r) ==
    [op     |-> "if ! git",
     args   |-> RemoteCloneArgs(r, r.isCompose),
     out    |-> "logPath",
     env    |-> {},
     onfail |-> << Line("echo", <<Lit("[ERROR] Fail to clone the repository"),
                                  UrlWord(r.url)>>, "logPath") >>]

\* if ! git clone ... >> ${logPath} 2>&1; then echo "[ERROR] ..." >> ${logPath}; exit 1; fi
GuardedClone(r) ==
    [op     |-> "if ! git",
     args   |-> RemoteCloneArgs(r, r.isCompose),
     out    |-> "logPath",
     env    |-> {},
     onfail |-> << Line("echo", <<Lit("[ERROR] Fail to clone the repository"),
                                  UrlWord(r.url)>>, "logPath"),
                   Line("exit", <<Lit("1")>>, "") >>]

\* if ! git clone ... ; then echo "[ERROR] Fail to clone the repository "; exit 1; fi
RawGuardedClone(r) ==
    [op     |-> "if ! git",
     args   |-> RemoteCloneArgs(r, TRUE),
     out    |-> "stdout",
     env    |-> {},
     onfail |-> << Line("echo", <<Lit("[ERROR] Fail to clone the repository")>>,
                        "stdout"),
                   Line("exit", <<Lit("1")>>, "") >>]

\* the script of getCustomGitCloneCommand for a reference that lacks url or branch
NotFoundScript ==
    << Line("echo", <<Lit("Error: Repository not found")>>, "logPath"),
       Line("exit", <<Lit("1")>>, "") >>

\* the lines pushed before the clone by both remote builders
ScriptHead(r, compose) ==
    (IF ~isHttpOrHttps(r.url)
       THEN <<addHostToKnownHostsCommand(r.url).line>> ELSE <<>>)
    \o << Line("rm", <<Lit("-rf"), outputPath(TRUE, compose)>>, ""),
          Line("mkdir", <<Lit("-p"), outputPath(TRUE, compose)>>, "") >>

\* a faulty variant of the builder: the start line is pushed before the
\* directory is reset
CustomGitCloneScriptEarlyEcho(r) ==
    (IF ~isHttpOrHttps(r.url)
       THEN <<addHostToKnownHostsCommand(r.url).line>> ELSE <<>>)
    \o << Line("echo", <<Lit("Cloning Custom Git"), UrlWord(r.url), Lit("to"),
                         outputPath(TRUE, r.isCompose)>>, "logPath"),
          Line("rm", <<Lit("-rf"), outputPath(TRUE, r.isCompose)>>, ""),
          Line("mkdir", <<Lit("-p"), outputPath(TRUE, r.isCompose)>>, "") >>
    \o (IF r.key # NoKey THEN <<SshCommandLine(r.key)>> ELSE <<>>)
    \o << GuardedClone(r),
          Line("echo", <<Lit("Cloned Custom Git"), UrlWord(r.url)>>, "logPath") >>

\* the try block of getCustomGitCloneCommand for a reference with url and branch
CustomGitCloneScript(r) ==
    ScriptHead(r, r.isCompose)
    \o << Line("echo", <<Lit("Cloning Custom Git"), UrlWord(r.url), Lit("to"),
                         outputPath(TRUE, r.isCompose)>>, "logPath") >>
    \o (IF r.key # NoKey THEN <<SshCommandLine(r.key)>> ELSE <<>>)
    \o << GuardedClone(r),
          Line("echo", <<Lit("Cloned Custom Git"), UrlWord(r.url)>>, "logPath") >>

\* the try block of cloneRawGitRepositoryRemote
RawRemoteScript(r) ==
    ScriptHead(r, TRUE)
    \o (IF r.key # NoKey THEN <<SshCommandLine(r.key)>> ELSE <<>>)
    \o << RawGuardedClone(r) >>

\* whether building a remote script throws (sanitizeRepoPathSSH on a url
\* that is not http(s))
BuildThrows(r) == ~isHttpOrHttps(r.url) /\ ~sanitizeRepoPathSSH(r.url).ok


(***************************************************************************)
(* State.  Two invocations are issued for the same application, each of    *)
(* any entry point; an invocation is resumed at each await with the        *)
(* outcome of the collaborator it awaits.                                  *)
(***************************************************************************)
Procs == {"p1", "p2"}

\* output chunks one clone child process delivers at most
MaxChunks == 2

PathNames == {"COMPOSE_PATH/appName/code", "APPLICATIONS_PATH/appName/code"}

VARIABLES
    ref,          \* the entity of the application: url, branch, key, serverId
    fn,           \* the entry point each invocation runs
    pc,           \* where each invocation stands: the await it is suspended at
    err,          \* the error the caller of each invocation received
    raised,       \* the error a collaborator raised inside each invocation
    sink,         \* the writeStream of each invocation: none, open or ended
    log,          \* the lines written to each invocation's writeStream
    trace,        \* the collaborator calls and the lines written by each
                  \* invocation, in order
    child,        \* the clone child process of each invocation
    dir,          \* the local destination directories
    knownHosts,   \* the entries appended to the local known_hosts file
    script,       \* the script text each remote builder produced
    sh,           \* the remote shell running each invocation's script
    rlog,         \* the lines appended to each invocation's remote log file
    rdir,         \* the destination directories on the remote host
    rknownHosts,  \* the entries appended to known_hosts by remote scripts
    calls,        \* the invocations in the order they were called
    parse         \* a string handed to sanitizeRepoPathSSH on its own, the
                  \* object returned, its repoPath and the parse of that

vars == <<ref, fn, pc, err, raised, sink, log, trace, child, dir, knownHosts,
          script, sh, rlog, rdir, rknownHosts, calls, parse>>

localFs == <<dir, knownHosts>>

remoteVars == <<script, sh, rlog, rdir, rknownHosts>>

NoChild == [st |-> "none", args |-> <<>>, env |-> {}, chunks |-> 0]

NoShell == [st |-> "none", lines |-> <<>>, ip |-> 1, vars |-> {},
            clone |-> "none", cloneEnv |-> {}]

Absent == [exists |-> FALSE, files |-> {}]

Empty == [exists |-> TRUE, files |-> {}]

\* no string is being parsed on its own
NotParsing ==
    [stage |-> "none", input |-> <<>>, loc |-> NoMatch, repoPath |-> <<>>,
     again |-> NoMatch]

\* no entry point has been called yet
NothingCalled ==
    /\ fn = [p \in Procs |-> "none"]
    /\ pc = [p \in Procs |-> "idle"]
    /\ err = [p \in Procs |-> "none"]
    /\ raised = [p \in Procs |-> "none"]
    /\ sink = [p \in Procs |-> "none"]
    /\ log = [p \in Procs |-> <<>>]
    /\ trace = [p \in Procs |-> <<>>]
    /\ child = [p \in Procs |-> NoChild]
    /\ dir = [d \in PathNames |-> Absent]
    /\ knownHosts = 0
    /\ script = [p \in Procs |-> <<>>]
    /\ sh = [p \in Procs |-> NoShell]
    /\ rlog = [p \in Procs |-> <<>>]
    /\ rdir = [d \in PathNames |-> Absent]
    /\ rknownHosts = 0
    /\ calls = <<>>

Init ==
    /\ ref \in References
    /\ parse = NotParsing
    /\ NothingCalled

Marker(kind, detail) == [kind |-> kind, detail |-> detail]

\* a faulty variant of the validation: the branch is not looked at
MissingReferenceUrlOnly(r) == r.url = NoUrl

\* if (!customGitUrl || !customGitBranch)
MissingReference(r) == r.url = NoUrl \/ r.branch = NoBranch

\* an invocation ends: the promise of the entry point settles
Return(p) ==
    /\ pc' = [pc EXCEPT ![p] = "returned"]
    /\ UNCHANGED err

Throw(p, e) ==
    /\ pc' = [pc EXCEPT ![p] = "thrown"]
    /\ err' = [err EXCEPT ![p] = e]

Suspend(p, at) ==
    /\ pc' = [pc EXCEPT ![p] = at]
    /\ UNCHANGED err

(***************************************************************************)
(* cloneGitRepository                                                      *)
(***************************************************************************)
\* a faulty variant of the catch: the error is rethrown and nothing is written
CloneCatchSilent(e) == [lines |-> <<>>, thrown |-> e]

\* catch (error) { writeStream.write(`ERROR Cloning Custom Git: ${error}`);
\* throw error; }: the line written and the error thrown
CloneCatch(e) ==
    [lines |-> <<Marker("ERROR Cloning Custom Git", e)>>, thrown |-> e]

\* catch, then finally { writeStream.end() }, from the log lg and trace tr
\* the try block reached
CloneFail(p, e, lg, tr) ==
    /\ raised' = [raised EXCEPT ![p] = e]
    /\ log' = [log EXCEPT ![p] = lg \o CloneCatch(e).lines]
    /\ trace' = [trace EXCEPT ![p] =
                    tr \o [i \in 1..Len(CloneCatch(e).lines) |->
                            CloneCatch(e).lines[i].kind]
                       \o <<"end">>]
    /\ sink' = [sink EXCEPT ![p] = "ended"]
    /\ Throw(p, CloneCatch(e).thrown)

\* the call, up to the first await: validation, createWriteStream, and
\* addHostToKnownHosts up to execAsync or recreateDirectory's call
cloneGitRepository(p) ==
    /\ pc[p] = "idle"
    /\ fn' = [fn EXCEPT ![p] = "cloneGitRepository"]
    /\ calls' = Append(calls, p)
    /\ UNCHANGED <<ref, parse, child, localFs, remoteVars>>
    /\ IF MissingReference(ref)
       THEN /\ Throw(p, "BAD_REQUEST")
            /\ UNCHANGED <<raised, sink, log, trace>>
       ELSE IF ~isHttpOrHttps(ref.url)
       THEN IF ~sanitizeRepoPathSSH(ref.url).ok
            THEN CloneFail(p, "Malformatted SSH path", <<>>,
                           <<"createWriteStream", "sanitizeRepoPathSSH">>)
            ELSE /\ sink' = [sink EXCEPT ![p] = "open"]
                 /\ trace' = [trace EXCEPT ![p] =
                      <<"createWriteStream", "sanitizeRepoPathSSH", "execAsync">>]
                 /\ Suspend(p, "keyscan")
                 /\ UNCHANGED <<raised, log>>
       ELSE /\ sink' = [sink EXCEPT ![p] = "open"]
            /\ trace' = [trace EXCEPT ![p] =
                          <<"createWriteStream", "recreateDirectory">>]
            /\ Suspend(p, "recreate")
            /\ UNCHANGED <<raised, log>>

\* a faulty variant of the step: the scan is not waited for, and the reset is
\* started whether it succeeded or not
cloneKeyscanDoneNotAwaited(p) ==
    /\ pc[p] = "keyscan"
    /\ fn[p] = "cloneGitRepository"
    /\ UNCHANGED <<ref, parse, fn, calls, child, dir, remoteVars>>
    /\ \E ok \in BOOLEAN :
        /\ knownHosts' = IF ok THEN knownHosts + 1 ELSE knownHosts
        /\ raised' = [raised EXCEPT ![p] = IF ok THEN @ ELSE "HostKeyScanError"]
        /\ trace' = [trace EXCEPT ![p] = Append(@, "recreateDirectory")]
        /\ Suspend(p, "recreate")
        /\ UNCHANGED <<sink, log>>

\* await execAsync(`ssh-keyscan ...`) settles inside addHostToKnownHosts
cloneKeyscanDone(p) ==
    /\ pc[p] = "keyscan"
    /\ fn[p] = "cloneGitRepository"
    /\ UNCHANGED <<ref, parse, fn, calls, child, dir, remoteVars>>
    /\ \E ok \in BOOLEAN :
        IF ok
        THEN /\ knownHosts' = knownHosts + 1
             /\ trace' = [trace EXCEPT ![p] = Append(@, "recreateDirectory")]
             /\ Suspend(p, "recreate")
             /\ UNCHANGED <<raised, sink, log>>
        ELSE /\ CloneFail(p, "HostKeyScanError", log[p], trace[p])
             /\ UNCHANGED knownHosts

\* whether the awaited updateSSHKeyById aborts what follows it
BookkeepingAborts(ok) == ~ok

\* spawnAsync("git", [...], onData, {env}) is called
Spawn(p, args) ==
    child' = [child EXCEPT ![p] =
                [st |-> "running", args |-> args, env |-> CloneEnv(ref),
                 chunks |-> 0]]

\* a faulty variant of the step: the start line is written and the clone is
\* started on the destination as it was, without the reset
cloneRecreateDoneNoReset(p) ==
    /\ pc[p] = "recreate"
    /\ fn[p] = "cloneGitRepository"
    /\ UNCHANGED <<ref, parse, fn, calls, knownHosts, remoteVars>>
    /\ LET d == outputPath(FALSE, ref.isCompose).s
       IN \E ok \in BOOLEAN :
            IF ok
            THEN /\ UNCHANGED dir
                 /\ log' = [log EXCEPT ![p] =
                              Append(@, Marker("Cloning Repo Custom", ""))]
                 /\ UNCHANGED <<raised, sink>>
                 /\ IF ref.key # NoKey
                    THEN /\ trace' = [trace EXCEPT ![p] =
                                        @ \o <<"Cloning Repo Custom", "updateSSHKeyById">>]
                         /\ Suspend(p, "updateKey")
                         /\ UNCHANGED child
                    ELSE /\ trace' = [trace EXCEPT ![p] =
                                        @ \o <<"Cloning Repo Custom", "spawnAsync">>]
                         /\ Spawn(p, CloneArgs(ref))
                         /\ Suspend(p, "spawn")
            ELSE /\ \E left \in {dir[d], Absent} :
                        dir' = [dir EXCEPT ![d] = left]
                 /\ CloneFail(p, "DirectoryResetError", log[p], trace[p])
                 /\ UNCHANGED child

\* await recreateDirectory(outputPath) settles; on success the start line is
\* written and updateSSHKeyById or spawnAsync is called
cloneRecreateDone(p) ==
    /\ pc[p] = "recreate"
    /\ fn[p] = "cloneGitRepository"
    /\ UNCHANGED <<ref, parse, fn, calls, knownHosts, remoteVars>>
    /\ LET d == outputPath(FALSE, ref.isCompose).s
       IN \E ok \in BOOLEAN :
            IF ok
            THEN /\ dir' = [dir EXCEPT ![d] = Empty]
                 /\ log' = [log EXCEPT ![p] =
                              Append(@, Marker("Cloning Repo Custom", ""))]
                 /\ UNCHANGED <<raised, sink>>
                 /\ IF ref.key # NoKey
                    THEN /\ trace' = [trace EXCEPT ![p] =
                                        @ \o <<"Cloning Repo Custom", "updateSSHKeyById">>]
                         /\ Suspend(p, "updateKey")
                         /\ UNCHANGED child
                    ELSE /\ trace' = [trace EXCEPT ![p] =
                                        @ \o <<"Cloning Repo Custom", "spawnAsync">>]
                         /\ Spawn(p, CloneArgs(ref))
                         /\ Suspend(p, "spawn")
            ELSE /\ \E left \in {dir[d], Absent} :
                        dir' = [dir EXCEPT ![d] = left]
                 /\ CloneFail(p, "DirectoryResetError", log[p], trace[p])
                 /\ UNCHANGED child

\* await updateSSHKeyById(...) settles
cloneUpdateKeyDone(p) ==
    /\ pc[p] = "updateKey"
    /\ fn[p] = "cloneGitRepository"
    /\ UNCHANGED <<ref, parse, fn, calls, localFs, remoteVars>>
    /\ \E ok \in BOOLEAN :
        IF BookkeepingAborts(ok)
        THEN /\ CloneFail(p, "SSHKeyError", log[p], trace[p])
             /\ UNCHANGED child
        ELSE /\ raised' = [raised EXCEPT ![p] =
                             IF ok THEN @ ELSE "SSHKeyError"]
             /\ trace' = [trace EXCEPT ![p] = Append(@, "spawnAsync")]
             /\ Spawn(p, CloneArgs(ref))
             /\ Suspend(p, "spawn")
             /\ UNCHANGED <<sink, log>>

\* a faulty variant of the callback: the chunk is written whatever the
\* state of the writeStream
onDataUnguarded(state) == TRUE

\* (data) => { if (writeStream.writable) writeStream.write(data) }: whether
\* the chunk is written; writable is true until end() is called
onData(state) == state = "open"

\* the child delivers an output chunk to the callback, while it runs or,
\* for output it left in the pipe, after spawnAsync has settled
cloneData(p) ==
    /\ fn[p] = "cloneGitRepository"
    /\ child[p].st # "none"
    /\ child[p].chunks < MaxChunks
    /\ child' = [child EXCEPT ![p].chunks = @ + 1]
    /\ IF child[p].st = "running"
       THEN dir' = [dir EXCEPT ![outputPath(FALSE, ref.isCompose).s] =
                      [exists |-> TRUE, files |-> @.files \cup {p}]]
       ELSE UNCHANGED dir
    /\ IF onData(sink[p])
       THEN /\ log' = [log EXCEPT ![p] = Append(@, Marker("data", ""))]
            /\ trace' = [trace EXCEPT ![p] = Append(@, "data")]
       ELSE UNCHANGED <<log, trace>>
    /\ UNCHANGED <<ref, parse, fn, calls, pc, err, raised, sink, knownHosts, remoteVars>>

\* await spawnAsync(...) settles: the success line, or the catch; then the
\* finally
cloneSpawnDone(p) ==
    /\ pc[p] = "spawn"
    /\ fn[p] = "cloneGitRepository"
    /\ UNCHANGED <<ref, parse, fn, calls, knownHosts, remoteVars>>
    /\ \E ok \in BOOLEAN :
        IF ok
        THEN /\ child' = [child EXCEPT ![p].st = "exit0"]
             /\ dir' = [dir EXCEPT ![outputPath(FALSE, ref.isCompose).s] =
                          [exists |-> TRUE, files |-> @.files \cup {p}]]
             /\ log' = [log EXCEPT ![p] =
                          Append(@, Marker("Cloned Custom Git", ""))]
             /\ trace' = [trace EXCEPT ![p] = @ \o <<"Cloned Custom Git", "end">>]
             /\ sink' = [sink EXCEPT ![p] = "ended"]
             /\ Return(p)
             /\ UNCHANGED raised
        ELSE /\ child' = [child EXCEPT ![p].st = "failed"]
             /\ CloneFail(p, "CloneProcessError", log[p], trace[p])
             /\ UNCHANGED dir

(***************************************************************************)
(* cloneGitRawRepository                                                   *)
(***************************************************************************)
\* catch (error) { throw error; }
RawFail(p, e) ==
    /\ raised' = [raised EXCEPT ![p] = e]
    /\ Throw(p, e)

\* the call, up to the first await: validation, then addHostToKnownHosts up
\* to execAsync
cloneGitRawRepository(p) ==
    /\ pc[p] = "idle"
    /\ fn' = [fn EXCEPT ![p] = "cloneGitRawRepository"]
    /\ calls' = Append(calls, p)
    /\ UNCHANGED <<ref, parse, sink, log, child, localFs, remoteVars>>
    /\ IF MissingReference(ref)
       THEN /\ Throw(p, "BAD_REQUEST")
            /\ UNCHANGED <<raised, trace>>
       ELSE IF ~sanitizeRepoPathSSH(ref.url).ok
       THEN /\ trace' = [trace EXCEPT ![p] = <<"sanitizeRepoPathSSH">>]
            /\ RawFail(p, "Malformatted SSH path")
       ELSE /\ trace' = [trace EXCEPT ![p] = <<"sanitizeRepoPathSSH", "execAsync">>]
            /\ Suspend(p, "keyscan")
            /\ UNCHANGED raised

\* await execAsync(`ssh-keyscan ...`) settles inside addHostToKnownHosts
rawKeyscanDone(p) ==
    /\ pc[p] = "keyscan"
    /\ fn[p] = "cloneGitRawRepository"
    /\ UNCHANGED <<ref, parse, fn, calls, sink, log, child, dir, remoteVars>>
    /\ \E ok \in BOOLEAN :
        IF ok
        THEN /\ knownHosts' = knownHosts + 1
             /\ trace' = [trace EXCEPT ![p] = Append(@, "recreateDirectory")]
             /\ Suspend(p, "recreate")
             /\ UNCHANGED raised
        ELSE /\ RawFail(p, "HostKeyScanError")
             /\ UNCHANGED <<knownHosts, trace>>

\* await recreateDirectory(outputPath) settles
rawRecreateDone(p) ==
    /\ pc[p] = "recreate"
    /\ fn[p] = "cloneGitRawRepository"
    /\ UNCHANGED <<ref, parse, fn, calls, sink, log, knownHosts, remoteVars>>
    /\ LET d == outputPath(FALSE, TRUE).s
       IN \E ok \in BOOLEAN :
            IF ok
            THEN /\ dir' = [dir EXCEPT ![d] = Empty]
                 /\ UNCHANGED raised
                 /\ IF ref.key # NoKey
                    THEN /\ trace' = [trace EXCEPT ![p] =
                                        Append(@, "updateSSHKeyById")]
                         /\ Suspend(p, "updateKey")
                         /\ UNCHANGED child
                    ELSE /\ trace' = [trace EXCEPT ![p] = Append(@, "spawnAsync")]
                         /\ Spawn(p, RawCloneArgs(ref))
                         /\ Suspend(p, "spawn")
            ELSE /\ \E left \in {dir[d], Absent} :
                        dir' = [dir EXCEPT ![d] = left]
                 /\ RawFail(p, "DirectoryResetError")
                 /\ UNCHANGED <<child, trace>>

\* await updateSSHKeyById(...) settles
rawUpdateKeyDone(p) ==
    /\ pc[p] = "updateKey"
    /\ fn[p] = "cloneGitRawRepository"
    /\ UNCHANGED <<ref, parse, fn, calls, sink, log, localFs, remoteVars>>
    /\ \E ok \in BOOLEAN :
        IF ok
        THEN /\ trace' = [trace EXCEPT ![p] = Append(@, "spawnAsync")]
             /\ Spawn(p, RawCloneArgs(ref))
             /\ Suspend(p, "spawn")
             /\ UNCHANGED raised
        ELSE /\ RawFail(p, "SSHKeyError")
             /\ UNCHANGED <<child, trace>>

\* the child delivers an output chunk: (data) => {}
rawData(p) ==
    /\ pc[p] = "spawn"
    /\ fn[p] = "cloneGitRawRepository"
    /\ child[p].chunks < MaxChunks
    /\ child' = [child EXCEPT ![p].chunks = @ + 1]
    /\ dir' = [dir EXCEPT ![outputPath(FALSE, TRUE).s] =
                 [exists |-> TRUE, files |-> @.files \cup {p}]]
    /\ UNCHANGED <<ref, parse, fn, calls, pc, err, raised, sink, log, trace, knownHosts,
                   remoteVars>>

\* await spawnAsync(...) settles
rawSpawnDone(p) ==
    /\ pc[p] = "spawn"
    /\ fn[p] = "cloneGitRawRepository"
    /\ UNCHANGED <<ref, parse, fn, calls, sink, log, trace, knownHosts, remoteVars>>
    /\ \E ok \in BOOLEAN :
        IF ok
        THEN /\ child' = [child EXCEPT ![p].st = "exit0"]
             /\ dir' = [dir EXCEPT ![outputPath(FALSE, TRUE).s] =
                          [exists |-> TRUE, files |-> @.files \cup {p}]]
             /\ Return(p)
             /\ UNCHANGED raised
        ELSE /\ child' = [child EXCEPT ![p].st = "failed"]
             /\ RawFail(p, "CloneProcessError")
             /\ UNCHANGED dir

(***************************************************************************)
(* The remote-execution collaborator: execAsyncRemote(serverId, command)   *)
(* runs the script with a shell on the host and rejects when the script    *)
(* exits non-zero.                                                         *)
(***************************************************************************)
\* the environment of the shell the collaborator starts
ShellEnv == {[name |-> "env", keyPath |-> ""]}

\* the environment a command runs with: the shell's exported variables and
\* the assignments that prefix the command; a variable assigned on a line
\* of its own is a shell variable, not exported
CommandEnv(ln) == ShellEnv \cup ln.env

\* the shell is started on the script
StartShell(p, lines) ==
    sh' = [sh EXCEPT ![p] = [st |-> "running", lines |-> lines, ip |-> 1,
                              vars |-> {}, clone |-> "none", cloneEnv |-> {}]]

\* the then-branch of a failed guard: echo lines are appended to the log
\* up to the exit
RECURSIVE RunBlock(_, _)
RunBlock(lines, lg) ==
    IF lines = <<>> THEN [log |-> lg, exited |-> FALSE]
    ELSE IF Head(lines).op = "exit" THEN [log |-> lg, exited |-> TRUE]
    ELSE RunBlock(Tail(lines),
                  IF Head(lines).op = "echo" /\ Head(lines).out = "logPath"
                    THEN Append(lg, Head(lines).args[1].s) ELSE lg)

\* the shell's state after the line at ip: the next line, or the end of
\* the script with the status of its last command
Advance(s) ==
    IF s.ip = Len(s.lines) THEN [s EXCEPT !.st = "exit0"]
    ELSE [s EXCEPT !.ip = @ + 1]

\* the shell runs the next command of the script; a failing command that is
\* not guarded does not stop the script
shellStep(p) ==
    /\ sh[p].st = "running"
    /\ UNCHANGED <<ref, parse, fn, calls, pc, err, raised, sink, log, trace, child, localFs,
                   script>>
    /\ LET ln == sh[p].lines[sh[p].ip]
       IN  CASE ln.op = "ssh-keyscan" ->
                  /\ \E ok \in BOOLEAN :
                        rknownHosts' = IF ok THEN rknownHosts + 1 ELSE rknownHosts
                  /\ sh' = [sh EXCEPT ![p] = Advance(@)]
                  /\ UNCHANGED <<rlog, rdir>>
             [] ln.op = "rm" ->
                  /\ \E ok \in BOOLEAN :
                        rdir' = IF ok THEN [rdir EXCEPT ![ln.args[2].s] = Absent]
                                ELSE rdir
                  /\ sh' = [sh EXCEPT ![p] = Advance(@)]
                  /\ UNCHANGED <<rlog, rknownHosts>>
             [] ln.op = "mkdir" ->
                  /\ \E ok \in BOOLEAN :
                        rdir' = IF ok THEN [rdir EXCEPT ![ln.args[2].s].exists = TRUE]
                                ELSE rdir
                  /\ sh' = [sh EXCEPT ![p] = Advance(@)]
                  /\ UNCHANGED <<rlog, rknownHosts>>
             [] ln.op = "echo" ->
                  /\ rlog' = IF ln.out = "logPath"
                               THEN [rlog EXCEPT ![p] = Append(@, ln.args[1].s)]
                               ELSE rlog
                  /\ sh' = [sh EXCEPT ![p] = Advance(@)]
                  /\ UNCHANGED <<rdir, rknownHosts>>
             [] ln.op = "exit" ->
                  /\ sh' = [sh EXCEPT ![p].st = "exit1"]
                  /\ UNCHANGED <<rlog, rdir, rknownHosts>>
             [] ln.op = "GIT_SSH_COMMAND=" ->
                  /\ sh' = [sh EXCEPT ![p] =
                              Advance([@ EXCEPT !.vars =
                                         @ \cup {GitSshCommand(ln.args[1].s)}])]
                  /\ UNCHANGED <<rlog, rdir, rknownHosts>>
             [] ln.op = "if ! git" ->
                  \E ok \in BOOLEAN :
                    LET out == IF ln.out = "logPath"
                                 THEN Append(rlog[p], "git clone output")
                                 ELSE rlog[p]
                        ran == [sh[p] EXCEPT !.cloneEnv = CommandEnv(ln),
                                             !.clone = IF ok THEN "ok" ELSE "failed"]
                        blk == RunBlock(ln.onfail, out)
                    IN  /\ UNCHANGED rknownHosts
                        /\ IF ok
                           THEN /\ rlog' = [rlog EXCEPT ![p] = out]
                                /\ rdir' = [rdir EXCEPT ![ln.args[8].s] =
                                              [exists |-> TRUE,
                                               files |-> @.files \cup {p}]]
                                /\ sh' = [sh EXCEPT ![p] = Advance(ran)]
                           ELSE /\ rlog' = [rlog EXCEPT ![p] = blk.log]
                                /\ UNCHANGED rdir
                                /\ sh' = [sh EXCEPT ![p] =
                                            IF blk.exited
                                              THEN [ran EXCEPT !.st = "exit1"]
                                              ELSE Advance(ran)]

\* how an awaited execAsyncRemote can settle; with no server handle nothing
\* says whether the call runs anything
RemoteOutcomes(p) ==
    IF ref.serverId = NoServer THEN {"resolved", "rejected"}
    ELSE IF sh[p].st = "exit0" THEN {"resolved"}
    ELSE IF sh[p].st = "exit1" THEN {"rejected"}
    ELSE {}

\* execAsyncRemote(serverId, command) is called
ExecAsyncRemote(p, lines) ==
    IF ref.serverId = NoServer THEN UNCHANGED sh ELSE StartShell(p, lines)

(***************************************************************************)
(* getCustomGitCloneCommand                                                *)
(***************************************************************************)
\* the try block: the script is built and returned, or building throws and
\* catch (error) { console.log(error); throw error; }
CommandBuild(p, tr) ==
    IF BuildThrows(ref)
    THEN /\ trace' = [trace EXCEPT ![p] =
                        tr \o <<"sanitizeRepoPathSSH", "console.log">>]
         /\ raised' = [raised EXCEPT ![p] = "Malformatted SSH path"]
         /\ Throw(p, "Malformatted SSH path")
         /\ UNCHANGED script
    ELSE /\ trace' = [trace EXCEPT ![p] =
                        tr \o (IF isHttpOrHttps(ref.url) THEN <<>>
                               ELSE <<"sanitizeRepoPathSSH">>)]
         /\ script' = [script EXCEPT ![p] = CustomGitCloneScript(ref)]
         /\ Return(p)
         /\ UNCHANGED raised

\* the call, up to the first await or to the return
getCustomGitCloneCommand(p) ==
    /\ pc[p] = "idle"
    /\ fn' = [fn EXCEPT ![p] = "getCustomGitCloneCommand"]
    /\ calls' = Append(calls, p)
    /\ UNCHANGED <<ref, parse, sink, log, child, localFs, rlog, rdir, rknownHosts>>
    /\ IF MissingReference(ref)
       THEN /\ trace' = [trace EXCEPT ![p] = <<"execAsyncRemote">>]
            /\ script' = [script EXCEPT ![p] = NotFoundScript]
            /\ ExecAsyncRemote(p, NotFoundScript)
            /\ Suspend(p, "notFound")
            /\ UNCHANGED raised
       ELSE IF ref.key # NoKey
       THEN /\ trace' = [trace EXCEPT ![p] = <<"updateSSHKeyById">>]
            /\ Suspend(p, "updateKey")
            /\ UNCHANGED <<raised, script, sh>>
       ELSE /\ CommandBuild(p, <<>>)
            /\ UNCHANGED sh

\* await execAsyncRemote(serverId, command) settles for the reference that
\* lacks url or branch; the TRPCError is thrown when it resolves
commandNotFoundDone(p) ==
    /\ pc[p] = "notFound"
    /\ fn[p] = "getCustomGitCloneCommand"
    /\ UNCHANGED <<ref, parse, fn, calls, sink, log, trace, child, localFs, remoteVars>>
    /\ \E out \in RemoteOutcomes(p) :
        IF out = "rejected"
        THEN /\ raised' = [raised EXCEPT ![p] = "RemoteExecError"]
             /\ Throw(p, "RemoteExecError")
        ELSE /\ Throw(p, "BAD_REQUEST")
             /\ UNCHANGED raised

\* await updateSSHKeyById(...) settles, before the try block
commandUpdateKeyDone(p) ==
    /\ pc[p] = "updateKey"
    /\ fn[p] = "getCustomGitCloneCommand"
    /\ UNCHANGED <<ref, parse, fn, calls, sink, log, child, localFs, sh, rlog, rdir,
                   rknownHosts>>
    /\ \E ok \in BOOLEAN :
        IF ok
        THEN CommandBuild(p, trace[p])
        ELSE /\ raised' = [raised EXCEPT ![p] = "SSHKeyError"]
             /\ Throw(p, "SSHKeyError")
             /\ UNCHANGED <<trace, script>>

\* the caller hands the returned script to the remote-execution collaborator
commandRun(p) ==
    /\ fn[p] = "getCustomGitCloneCommand"
    /\ pc[p] = "returned"
    /\ sh[p].st = "none"
    /\ ref.serverId # NoServer
    /\ StartShell(p, script[p])
    /\ UNCHANGED <<ref, parse, fn, calls, pc, err, raised, sink, log, trace, child, localFs,
                   script, rlog, rdir, rknownHosts>>

(***************************************************************************)
(* cloneRawGitRepositoryRemote                                             *)
(***************************************************************************)
\* the try block: the script is built and handed to execAsyncRemote, or
\* building throws and catch (error) { throw error; }
RawRemoteBuild(p, tr) ==
    IF BuildThrows(ref)
    THEN /\ trace' = [trace EXCEPT ![p] = tr \o <<"sanitizeRepoPathSSH">>]
         /\ raised' = [raised EXCEPT ![p] = "Malformatted SSH path"]
         /\ Throw(p, "Malformatted SSH path")
         /\ UNCHANGED <<script, sh>>
    ELSE /\ trace' = [trace EXCEPT ![p] =
                        tr \o (IF isHttpOrHttps(ref.url) THEN <<>>
                               ELSE <<"sanitizeRepoPathSSH">>)
                           \o <<"execAsyncRemote">>]
         /\ script' = [script EXCEPT ![p] = RawRemoteScript(ref)]
         /\ ExecAsyncRemote(p, RawRemoteScript(ref))
         /\ Suspend(p, "remoteExec")
         /\ UNCHANGED raised

\* the call, up to the first await
cloneRawGitRepositoryRemote(p) ==
    /\ pc[p] = "idle"
    /\ fn' = [fn EXCEPT ![p] = "cloneRawGitRepositoryRemote"]
    /\ calls' = Append(calls, p)
    /\ UNCHANGED <<ref, parse, sink, log, child, localFs, rlog, rdir, rknownHosts>>
    /\ IF ref.serverId = NoServer
       THEN /\ Throw(p, "NOT_FOUND Server not found")
            /\ UNCHANGED <<raised, trace, script, sh>>
       ELSE IF ref.url = NoUrl
       THEN /\ Throw(p, "NOT_FOUND Git Provider not found")
            /\ UNCHANGED <<raised, trace, script, sh>>
       ELSE IF ref.key # NoKey
       THEN /\ trace' = [trace EXCEPT ![p] = <<"updateSSHKeyById">>]
            /\ Suspend(p, "updateKey")
            /\ UNCHANGED <<raised, script, sh>>
       ELSE RawRemoteBuild(p, <<>>)

\* await updateSSHKeyById(...) settles, before the try block
rawRemoteUpdateKeyDone(p) ==
    /\ pc[p] = "updateKey"
    /\ fn[p] = "cloneRawGitRepositoryRemote"
    /\ UNCHANGED <<ref, parse, fn, calls, sink, log, child, localFs, rlog, rdir, rknownHosts>>
    /\ \E ok \in BOOLEAN :
        IF ok
        THEN RawRemoteBuild(p, trace[p])
        ELSE /\ raised' = [raised EXCEPT ![p] = "SSHKeyError"]
             /\ Throw(p, "SSHKeyError")
             /\ UNCHANGED <<trace, script, sh>>

\* await execAsyncRemote(serverId, command.join("\n")) settles
rawRemoteExecDone(p) ==
    /\ pc[p] = "remoteExec"
    /\ fn[p] = "cloneRawGitRepositoryRemote"
    /\ UNCHANGED <<ref, parse, fn, calls, sink, log, trace, child, localFs, remoteVars>>
    /\ \E out \in RemoteOutcomes(p) :
        IF out = "rejected"
        THEN /\ raised' = [raised EXCEPT ![p] = "RemoteExecError"]
             /\ Throw(p, "RemoteExecError")
        ELSE /\ Return(p)
             /\ UNCHANGED raised

\* a call is issued once the invocation before it has settled
Settled(p) == pc[p] \in {"returned", "thrown"} /\ sh[p].st # "running"

Turn(p) == \A q \in Procs \ {p} : pc[q] = "idle" \/ Settled(q)

Next ==
    \E p \in Procs :
        \/ Turn(p) /\ cloneGitRepository(p)
        \/ cloneKeyscanDone(p)
        \/ cloneRecreateDone(p)
        \/ cloneUpdateKeyDone(p)
        \/ cloneData(p)
        \/ cloneSpawnDone(p)
        \/ Turn(p) /\ cloneGitRawRepository(p)
        \/ rawKeyscanDone(p)
        \/ rawRecreateDone(p)
        \/ rawUpdateKeyDone(p)
        \/ rawData(p)
        \/ rawSpawnDone(p)
        \/ Turn(p) /\ getCustomGitCloneCommand(p)
        \/ commandNotFoundDone(p)
        \/ commandUpdateKeyDone(p)
        \/ Turn(p) /\ commandRun(p)
        \/ Turn(p) /\ cloneRawGitRepositoryRemote(p)
        \/ rawRemoteUpdateKeyDone(p)
        \/ rawRemoteExecDone(p)
        \/ shellStep(p)

Spec == Init /\ [][Next]_vars

\* invocations of cloneGitRepository that no caller serializes: a call is
\* issued whatever the other invocation is doing
ConcurrentNext ==
    \E p \in Procs :
        \/ cloneGitRepository(p)
        \/ cloneKeyscanDone(p)
        \/ cloneRecreateDone(p)
        \/ cloneUpdateKeyDone(p)
        \/ cloneData(p)
        \/ cloneSpawnDone(p)

Concurrent == Init /\ [][ConcurrentNext]_vars

(***************************************************************************)
(* sanitizeRepoPathSSH on its own: a string is parsed, the repoPath of the *)
(* object returned is read, and that is parsed again.                      *)
(***************************************************************************)
\* the parts a string is put together from, well-formed and not
Leading == {<<>>, <<" ">>}

Protos == {<<>>, <<"s","s","h",":","/","/">>}

Users == {<<>>, <<"d","e","@">>, <<"a","@">>}

Domains == {<<"h">>, <<"h",".","c">>}

Ports == {<<>>, <<":","0">>, <<":","2","2","2">>, <<":","9","9","9","9","9">>,
          <<":","1","2","3","4","5","6">>}

Owners == {<<>>, <<"/","o">>, <<":","o">>, <<"/">>}

Repos == {<<"/","r">>, <<":","r">>, <<"/","r",".","x">>, <<"/","r","/","s">>}

Trailing == {<<>>, <<".","g","i","t">>, <<".","g","i","t","/"," ">>, <<"/">>,
             <<"?">>}

Inputs ==
    {a \o b \o c \o d \o e \o f \o g \o h :
        a \in Leading, b \in Protos, c \in Users, d \in Domains, e \in Ports,
        f \in Owners, g \in Repos, h \in Trailing}

programVars == <<ref, fn, pc, err, raised, sink, log, trace, child, dir,
                 knownHosts, script, sh, rlog, rdir, rknownHosts, calls>>

ParserInit ==
    /\ ref = [url |-> NoUrl, branch |-> NoBranch, key |-> NoKey,
              serverId |-> NoServer, isCompose |-> FALSE]
    /\ NothingCalled
    /\ parse \in {[NotParsing EXCEPT !.stage = "input", !.input = i] :
                    i \in Inputs}

\* sanitizeRepoPathSSH(input) returns or throws
parseInput ==
    /\ parse.stage = "input"
    /\ parse' = [parse EXCEPT
                   !.loc = sanitizeRepoPathSSH(parse.input),
                   !.stage = IF sanitizeRepoPathSSH(parse.input).ok
                               THEN "parsed" ELSE "thrown"]
    /\ UNCHANGED programVars

\* the getter repoPath of the returned object is read
readRepoPath ==
    /\ parse.stage = "parsed"
    /\ parse' = [parse EXCEPT !.repoPath = repoPath(parse.loc),
                              !.stage = "read"]
    /\ UNCHANGED programVars

\* sanitizeRepoPathSSH(repoPath) returns or throws
parseRepoPath ==
    /\ parse.stage = "read"
    /\ parse' = [parse EXCEPT !.again = sanitizeRepoPathSSH(parse.repoPath),
                              !.stage = "again"]
    /\ UNCHANGED programVars

ParserNext == parseInput \/ readRepoPath \/ parseRepoPath

Parser == ParserInit /\ [][ParserNext]_vars


(***************************************************************************)
(* Properties                                                              *)
(***************************************************************************)
Range(f) == {f[i] : i \in DOMAIN f}

Done(p) == pc[p] \in {"returned", "thrown"}

HasLine(lg, kind) == \E i \in DOMAIN lg : lg[i].kind = kind

\* the errors a collaborator or the parser raises after validation
Failures ==
    {"Malformatted SSH path", "HostKeyScanError", "DirectoryResetError",
     "SSHKeyError", "CloneProcessError"}

\* C1: cloneGitRepository called with no url or no branch throws the
\* BAD_REQUEST validation error, and by then it has opened no writeStream,
\* written no line, parsed nothing, run no host-key scan, reset no directory,
\* notified no credential bookkeeping and started no child process.
C1_ValidationBeforeEffects ==
    \A p \in Procs :
        (fn[p] = "cloneGitRepository" /\ (ref.url = NoUrl \/ ref.branch = NoBranch))
        => /\ pc[p] = "thrown"
           /\ err[p] = "BAD_REQUEST"
           /\ sink[p] = "none"
           /\ log[p] = <<>>
           /\ trace[p] = <<>>
           /\ child[p].st = "none"

\* a url is given, the branch is not, and cloneGitRepository has thrown
C1_Witness ==
    \E p \in Procs :
        /\ fn[p] = "cloneGitRepository"
        /\ ref.url = ScpUrl
        /\ ref.branch = NoBranch
        /\ pc[p] = "thrown"

\* C2: in cloneGitRepository, once a failure has been raised after validation
\* (reference parsing, host-key scan, directory reset, credential bookkeeping
\* or the clone child process), the caller receives that very error, the last
\* line written to the writeStream before it was ended is the ERROR line
\* carrying that error, and no "Cloned Custom Git" line was written.
C2_FailureMarkerThenRethrow ==
    \A p \in Procs :
        (fn[p] = "cloneGitRepository" /\ (raised[p] # "none" \/ err[p] \in Failures))
        => /\ raised[p] \in Failures
           /\ pc[p] = "thrown"
           /\ err[p] = raised[p]
           /\ log[p] # <<>>
           /\ log[p][Len(log[p])] = Marker("ERROR Cloning Custom Git", raised[p])
           /\ ~HasLine(log[p], "Cloned Custom Git")
           /\ Len(trace[p]) >= 2
           /\ trace[p][Len(trace[p]) - 1] = "ERROR Cloning Custom Git"
           /\ trace[p][Len(trace[p])] = "end"

\* the clone child process failed after delivering output, and the error has
\* reached the caller
C2_Witness ==
    \E p \in Procs :
        /\ fn[p] = "cloneGitRepository"
        /\ raised[p] = "CloneProcessError"
        /\ HasLine(log[p], "data")
        /\ pc[p] = "thrown"

\* the number of elements of the sequence f that lie in S
Count(f, S) == Cardinality({i \in DOMAIN f : f[i] \in S})

\* the ssh-keyscan lines of a script
ScanLines(lines) == {i \in DOMAIN lines : lines[i].op = "ssh-keyscan"}

\* C3: for every entry point, the host-key scan is executed, or its command
\* is put into the script, at most once per invocation, and a url starting
\* with http:// or https:// leads neither to a scan nor to a parse.
C3_ScanOnlyForSSH ==
    \A p \in Procs :
        /\ Count(trace[p], {"execAsync"}) <= 1
        /\ Cardinality(ScanLines(script[p])) <= 1
        /\ isHttpOrHttps(ref.url)
           => /\ Count(trace[p], {"execAsync", "sanitizeRepoPathSSH"}) = 0
              /\ ScanLines(script[p]) = {}

\* C4: in cloneGitRepository, when updateSSHKeyById has failed, the clone
\* child process has been started by the time the invocation settles, and
\* the error the caller receives is not the bookkeeping error.
C4_BookkeepingNeverFatal ==
    \A p \in Procs :
        (fn[p] = "cloneGitRepository" /\ raised[p] = "SSHKeyError" /\ Done(p))
        => /\ "spawnAsync" \in Range(trace[p])
           /\ err[p] # "SSHKeyError"


\* C5: getCustomGitCloneCommand called for a server with no url or no branch
\* has, when it settles, handed the not-found script (an error line appended to the
\* remote log, then exit 1) to execAsyncRemote, and the caller has received
\* the BAD_REQUEST validation error.
C5_RemoteLineAndValidationError ==
    \A p \in Procs :
        (/\ fn[p] = "getCustomGitCloneCommand"
         /\ (ref.url = NoUrl \/ ref.branch = NoBranch)
         /\ ref.serverId # NoServer
         /\ Done(p))
        => /\ "execAsyncRemote" \in Range(trace[p])
           /\ script[p] = NotFoundScript
           /\ err[p] = "BAD_REQUEST"

\* the clone command line of a script
CloneLines(lines) == {i \in DOMAIN lines : lines[i].op = "if ! git"}

\* the words of a clone command, whichever tree the destination lies in
Options(args) == {[args[i] EXCEPT !.n = 0] : i \in DOMAIN args}

\* C6: the clone child process of cloneGitRepository and the clone command
\* of the script of getCustomGitCloneCommand carry the same words for the
\* same reference: clone, --branch and the branch, --depth 1, the submodule
\* option, --progress, the url and the destination.
C6_SameCloneOptions ==
    \A p, q \in Procs :
        (/\ fn[p] = "cloneGitRepository" /\ child[p].st # "none"
         /\ fn[q] = "getCustomGitCloneCommand" /\ pc[q] = "returned")
        => \A i \in CloneLines(script[q]) :
              Options(script[q][i].args) = Options(child[p].args)

\* C7: when the script of getCustomGitCloneCommand is run and its clone
\* command exits non-zero, the failure line is appended to the remote log,
\* the script exits non-zero and the success line is never appended; when
\* the clone command exits zero, no failure line is appended, the script
\* does not exit non-zero, and it ends with the success line appended.
C7_GuardedCloneOutcome ==
    \A p \in Procs :
        fn[p] = "getCustomGitCloneCommand"
        => /\ sh[p].clone = "failed"
              => /\ sh[p].st = "exit1"
                 /\ "[ERROR] Fail to clone the repository" \in Range(rlog[p])
                 /\ "Cloned Custom Git" \notin Range(rlog[p])
           /\ sh[p].clone = "ok"
              => /\ sh[p].st # "exit1"
                 /\ "[ERROR] Fail to clone the repository" \notin Range(rlog[p])
                 /\ sh[p].st = "exit0" => "Cloned Custom Git" \in Range(rlog[p])

\* one script run has ended on a failed clone and another on a clone that
\* succeeded
C7_Witness ==
    \E p, q \in Procs :
        /\ fn[p] = "getCustomGitCloneCommand"
        /\ sh[p].clone = "failed" /\ sh[p].st = "exit1"
        /\ fn[q] = "getCustomGitCloneCommand"
        /\ sh[q].clone = "ok" /\ sh[q].st = "exit0"

\* the GIT_SSH_COMMAND assignments of a script
AssignLines(lines) == {i \in DOMAIN lines : lines[i].op = "GIT_SSH_COMMAND="}

\* C8: with a credential id, the script of getCustomGitCloneCommand holds
\* exactly one GIT_SSH_COMMAND assignment, right before the clone command,
\* and the clone command runs with GIT_SSH_COMMAND in its environment;
\* without a credential id it holds no such assignment.
C8_SshCommandReachesClone ==
    \A p \in Procs :
        (fn[p] = "getCustomGitCloneCommand" /\ pc[p] = "returned")
        => IF ref.key # NoKey
           THEN /\ Cardinality(AssignLines(script[p])) = 1
                /\ \A i \in AssignLines(script[p]) : i + 1 \in CloneLines(script[p])
                /\ sh[p].clone # "none"
                   => GitSshCommand(ref.key) \in sh[p].cloneEnv
           ELSE AssignLines(script[p]) = {}

\* the steps a script performs, in order
RECURSIVE StepsOfScript(_)
StepsOfScript(lines) ==
    IF lines = <<>> THEN <<>>
    ELSE LET ln == Head(lines)
             step == CASE ln.op = "ssh-keyscan" -> <<"scan">>
                       [] ln.op = "rm" -> <<"remove">>
                       [] ln.op = "mkdir" -> <<"recreate">>
                       [] ln.op = "echo" /\ ln.args[1] = Lit("Cloning Custom Git")
                            -> <<"start">>
                       [] ln.op = "echo" /\ ln.args[1] = Lit("Cloned Custom Git")
                            -> <<"success">>
                       [] ln.op = "if ! git" -> <<"clone">>
                       [] ln.op = "GIT_SSH_COMMAND=" -> <<>>
                       [] OTHER -> <<ln.op>>
         IN  step \o StepsOfScript(Tail(lines))

\* the same steps as an invocation of cloneGitRepository performed them;
\* recreateDirectory removes the directory and creates it again
RECURSIVE StepsOfTrace(_)
StepsOfTrace(tr) ==
    IF tr = <<>> THEN <<>>
    ELSE LET step == CASE Head(tr) = "execAsync" -> <<"scan">>
                       [] Head(tr) = "recreateDirectory" -> <<"remove", "recreate">>
                       [] Head(tr) = "Cloning Repo Custom" -> <<"start">>
                       [] Head(tr) = "spawnAsync" -> <<"clone">>
                       [] Head(tr) = "Cloned Custom Git" -> <<"success">>
                       [] OTHER -> <<>>
         IN  step \o StepsOfTrace(Tail(tr))

\* C9: the script of getCustomGitCloneCommand performs, each once and in
\* this order, the host-key scan (exactly when the url is not http(s)), the
\* removal and the recreation of the destination, the start line, the
\* guarded clone and the success line; a successful invocation of
\* cloneGitRepository for the same reference performed the same steps in the
\* same order.
C9_SameStepOrder ==
    \A q \in Procs :
        (fn[q] = "getCustomGitCloneCommand" /\ pc[q] = "returned")
        => /\ StepsOfScript(script[q]) =
                (IF isHttpOrHttps(ref.url) THEN <<>> ELSE <<"scan">>)
                \o <<"remove", "recreate", "start", "clone", "success">>
           /\ \A p \in Procs :
                (fn[p] = "cloneGitRepository" /\ pc[p] = "returned")
                => StepsOfScript(script[q]) = StepsOfTrace(trace[p])

\* for an SSH url with a credential id, cloneGitRepository has returned and
\* getCustomGitCloneCommand has returned its script
C9_Witness ==
    \E p, q \in Procs :
        /\ fn[p] = "cloneGitRepository" /\ pc[p] = "returned"
        /\ fn[q] = "getCustomGitCloneCommand" /\ pc[q] = "returned"
        /\ ref.url = SshUrl
        /\ ref.key # NoKey

\* C10: when getCustomGitCloneCommand is called with a url and a branch and
\* the clone is aborted, by an error thrown to the caller or by the script
\* exiting non-zero, a failure line has been appended to the remote log.
C10_RemoteAbortLogged ==
    \A p \in Procs :
        (/\ fn[p] = "getCustomGitCloneCommand"
         /\ ref.url # NoUrl /\ ref.branch # NoBranch
         /\ (pc[p] = "thrown" \/ sh[p].st = "exit1"))
        => "[ERROR] Fail to clone the repository" \in Range(rlog[p])

\* the collaborator calls that are side effects of an invocation
Effects ==
    {"createWriteStream", "execAsync", "recreateDirectory", "updateSSHKeyById",
     "spawnAsync", "execAsyncRemote"}

\* C11: getCustomGitCloneCommand called with a url and a branch calls neither
\* execAsyncRemote nor updateSSHKeyById nor any filesystem or process
\* operation, and when it returns, it returns the script text.
C11_BuilderIsPure ==
    \A p \in Procs :
        (/\ fn[p] = "getCustomGitCloneCommand"
         /\ ref.url # NoUrl /\ ref.branch # NoBranch)
        => /\ Range(trace[p]) \cap Effects = {}
           /\ pc[p] = "returned" => script[p] = CustomGitCloneScript(ref)

\* the invocations of cloneGitRepository, in the order they were called
CloneCalls == SelectSeq(calls, LAMBDA p : fn[p] = "cloneGitRepository")

\* both invocations ran cloneGitRepository, one after the other, and both
\* have settled
TwoClonesSettled == Len(CloneCalls) = 2 /\ \A p \in Procs : Done(p)

\* the destination of the local clone
Destination == dir[outputPath(FALSE, ref.isCompose).s]

\* C12 as stated: after two invocations of cloneGitRepository in sequence,
\* the destination holds nothing the first one produced, at whichever step
\* the second one failed.
C12_OnlySecondResult ==
    TwoClonesSettled => Destination.files \subseteq {CloneCalls[2]}

\* C12: after two invocations of cloneGitRepository in sequence, when the
\* second one got past its directory reset (it wrote its start line), the
\* destination holds nothing the first one produced, whether the second
\* one returned or failed later.
C12_OnlySecondResultAfterReset ==
    (TwoClonesSettled /\ HasLine(log[CloneCalls[2]], "Cloning Repo Custom"))
    => Destination.files \subseteq {CloneCalls[2]}

\* the first invocation returned with its files in the destination, and the
\* second one failed in the clone child process after its reset
C12_Witness ==
    /\ TwoClonesSettled
    /\ pc[CloneCalls[1]] = "returned"
    /\ raised[CloneCalls[2]] = "CloneProcessError"
    /\ Destination.files \subseteq {CloneCalls[2]}

\* the lines that end the log of an invocation
Terminal == {"Cloned Custom Git", "ERROR Cloning Custom Git"}

\* the output chunks an invocation wrote to its writeStream
Written(p) == Cardinality({i \in DOMAIN log[p] : log[p][i].kind = "data"})

\* C13: an invocation of cloneGitRepository that opened its writeStream has
\* ended it by the time it settles, on success and on every failure; the
\* last thing written before end() is the success line or the ERROR line;
\* nothing is written after end(): a chunk the child delivers later is
\* dropped, and the outcome the caller received stays as it was.
C13_SinkEndedAndSilent ==
    \A p \in Procs :
        fn[p] = "cloneGitRepository"
        => /\ (Done(p) /\ "createWriteStream" \in Range(trace[p]))
              => sink[p] = "ended"
           /\ sink[p] = "open" => ~Done(p)
           /\ sink[p] = "ended"
              => /\ Done(p)
                 /\ Len(trace[p]) >= 2
                 /\ trace[p][Len(trace[p])] = "end"
                 /\ trace[p][Len(trace[p]) - 1] \in Terminal
                 /\ log[p][Len(log[p])].kind \in Terminal
                 /\ pc[p] = "returned" => err[p] = "none"
                 /\ pc[p] = "thrown" => err[p] = raised[p]

\* the invocation returned, its writeStream is ended, and the child
\* delivered a chunk after that, which was not written
C13_Witness ==
    \E p \in Procs :
        /\ fn[p] = "cloneGitRepository"
        /\ pc[p] = "returned"
        /\ sink[p] = "ended"
        /\ child[p].chunks > Written(p)

\* the errors that reject a reference before anything is done with it
ValidationErrors ==
    {"BAD_REQUEST", "NOT_FOUND Server not found",
     "NOT_FOUND Git Provider not found"}

\* C14: whichever entry point is called with no url or no branch, no clone
\* child process is started, no script with a clone command is built, and
\* the invocation settles by throwing a validation error.
C14_MissingReferenceRejected ==
    \A p \in Procs :
        (fn[p] # "none" /\ (ref.url = NoUrl \/ ref.branch = NoBranch))
        => /\ child[p].st = "none"
           /\ CloneLines(script[p]) = {}
           /\ Done(p) => (pc[p] = "thrown" /\ err[p] \in ValidationErrors)

\* C15: when sanitizeRepoPathSSH accepts a string, parsing the repoPath of
\* the object it returns succeeds and yields the same user, domain, port,
\* owner and repo.
C15_RepoPathParsesBack ==
    parse.stage = "again"
    => /\ parse.again.ok
       /\ parse.again.user = parse.loc.user
       /\ parse.again.domain = parse.loc.domain
       /\ parse.again.port = parse.loc.port
       /\ parse.again.owner = parse.loc.owner
       /\ parse.again.repo = parse.loc.repo

\* a string with a port and no owner was parsed, and so was its repoPath
C15_Witness ==
    /\ parse.stage = "again"
    /\ parse.loc.port = 222
    /\ parse.loc.owner = <<>>
    /\ parse.loc.user = <<"d", "e">>

\* C19: the port of the object sanitizeRepoPathSSH returns lies in 1..65535,
\* and it is 22 when the string carries no port.
C19_PortInRange ==
    parse.stage \in {"parsed", "read", "again"}
    => /\ parse.loc.port \in 1..65535
       /\ MatchSSHPath(parse.input).port = NoGroup => parse.loc.port = 22

\* the urls that are not http(s) and that sanitizeRepoPathSSH does not match
Unparsable == {BlankUrl, BadUrl}

\* C16 as stated: cloneGitRepository called with a branch and a url that is
\* whitespace only or malformed fails in the parser with no side effect at
\* all: no host-key scan, no directory reset, no child process, and nothing
\* created or written on disk, the log file included.
C16_ParseFailureNoEffect ==
    \A p \in Procs :
        (/\ fn[p] = "cloneGitRepository"
         /\ ref.url \in Unparsable /\ ref.branch # NoBranch)
        => /\ pc[p] = "thrown"
           /\ err[p] = "Malformatted SSH path"
           /\ Range(trace[p]) \cap Effects = {}
           /\ child[p].st = "none"
           /\ \A d \in PathNames : dir[d] = Absent
           /\ knownHosts = 0
           /\ sink[p] = "none"
           /\ log[p] = <<>>

\* C16: cloneGitRepository called with a branch and a url that is whitespace
\* only or malformed fails in the parser: no host-key scan is run, no
\* directory is reset, no credential bookkeeping is notified and no child
\* process is started; the log file is the one thing touched: it is opened,
\* the ERROR line with the parser's error is written to it, and it is ended.
C16_ParseFailureOnlyLogged ==
    \A p \in Procs :
        (/\ fn[p] = "cloneGitRepository"
         /\ ref.url \in Unparsable /\ ref.branch # NoBranch)
        => /\ pc[p] = "thrown"
           /\ err[p] = "Malformatted SSH path"
           /\ Range(trace[p]) \cap Effects = {"createWriteStream"}
           /\ child[p].st = "none"
           /\ \A d \in PathNames : dir[d] = Absent
           /\ knownHosts = 0
           /\ sink[p] = "ended"
           /\ log[p] = <<Marker("ERROR Cloning Custom Git", "Malformatted SSH path")>>

\* cloneGitRepository was called with the url "no url?" and has thrown
C16_Witness ==
    \E p \in Procs :
        /\ fn[p] = "cloneGitRepository"
        /\ ref.url = BadUrl
        /\ ref.branch # NoBranch
        /\ pc[p] = "thrown"

\* the place of the first occurrence of x in the sequence tr, 0 if none
Pos(tr, x) ==
    IF x \in Range(tr) THEN CHOOSE i \in DOMAIN tr :
                                /\ tr[i] = x
                                /\ \A j \in 1..(i - 1) : tr[j] # x
    ELSE 0

\* the failures of the steps that come before the clone child process
EarlyFailures ==
    {"Malformatted SSH path", "HostKeyScanError", "DirectoryResetError"}

\* C17: in an invocation of cloneGitRepository, recreateDirectory is called
\* for a url that is not http(s) only after the host-key scan was called and
\* has succeeded; spawnAsync is called only after recreateDirectory was
\* called and has succeeded (the start line is written in between); and
\* when the parser, the scan or the reset has failed, no child process is
\* ever started.
C17_StepsInSequence ==
    \A p \in Procs :
        fn[p] = "cloneGitRepository"
        => /\ ("recreateDirectory" \in Range(trace[p]) /\ ~isHttpOrHttps(ref.url))
              => /\ Pos(trace[p], "execAsync") > 0
                 /\ Pos(trace[p], "execAsync") < Pos(trace[p], "recreateDirectory")
                 /\ raised[p] # "HostKeyScanError"
                 /\ knownHosts > 0
           /\ isHttpOrHttps(ref.url) => "execAsync" \notin Range(trace[p])
           /\ child[p].st # "none"
              => /\ Pos(trace[p], "recreateDirectory") > 0
                 /\ Pos(trace[p], "recreateDirectory")
                      < Pos(trace[p], "Cloning Repo Custom")
                 /\ Pos(trace[p], "Cloning Repo Custom") < Pos(trace[p], "spawnAsync")
                 /\ raised[p] \notin EarlyFailures
           /\ raised[p] \in EarlyFailures
              => /\ child[p].st = "none"
                 /\ "spawnAsync" \notin Range(trace[p])
           /\ Count(trace[p], {"execAsync"}) <= 1
           /\ Count(trace[p], {"recreateDirectory"}) <= 1
           /\ Count(trace[p], {"spawnAsync"}) <= 1

\* for an SSH url, the scan, the reset and the clone child process have all
\* run and the invocation has returned
C17_Witness ==
    \E p \in Procs :
        /\ fn[p] = "cloneGitRepository"
        /\ ref.url = ScpUrl
        /\ pc[p] = "returned"
        /\ child[p].st = "exit0"

\* C18: the clone child process of cloneGitRepository has GIT_SSH_COMMAND
\* (key file and known-hosts file) in its environment exactly when the url
\* is not http(s) and a credential id is given; otherwise its environment
\* is process.env as it is.
C18_SshCommandOnlyForSSHWithKey ==
    \A p \in Procs :
        (fn[p] = "cloneGitRepository" /\ child[p].st # "none")
        => IF ~isHttpOrHttps(ref.url) /\ ref.key # NoKey
           THEN child[p].env = ProcessEnv \cup {GitSshCommand(ref.key)}
           ELSE child[p].env = ProcessEnv

\* C20: nothing keeps an invocation of cloneGitRepository from resetting the
\* destination while the clone child process of another invocation is
\* running: whenever its recreateDirectory succeeds at such a moment, the
\* destination is emptied, what the running child had written included,
\* and that child keeps running.
C20_ResetClobbersRunningClone ==
    [][\A p, q \in Procs :
          (/\ p # q
           /\ child[p].st = "running"
           /\ pc[q] = "recreate"
           /\ pc'[q] \in {"updateKey", "spawn"})
          => /\ Destination' = Empty
             /\ child'[p].st = "running"]_vars

\* the child of one invocation is running and has written to the
\* destination, and the other invocation has since reset the destination:
\* what the child wrote is gone
C20_Witness ==
    \E p, q \in Procs :
        /\ p # q
        /\ child[p].st = "running"
        /\ child[p].chunks > 0
        /\ p \notin Destination.files
        /\ pc[q] \in {"updateKey", "spawn"}
====
